---- MODULE Spec2Model ----
(***************************************************************************)
(* Model of the Telegram group-moderation bot (main.py, database.py).      *)
(*                                                                         *)
(* State: the two tables of the store (managed_chats, banned_users), the   *)
(* in-memory recency cache chat_recent_members, and one record per         *)
(* handler coroutine in flight.  A coroutine is suspended exactly at its   *)
(* awaits on the transport (the bot API) and on the store; each action     *)
(* below is the code that runs from one such await returning up to the     *)
(* next await being issued.  The transport and the store are external:     *)
(* what a call returns is drawn nondeterministically.                      *)
(***************************************************************************)
EXTENDS Integers, Sequences, FiniteSets, TLC

VARIABLES
    managed_chats,        \* table managed_chats: chat_id -> chat_title, None when no row
    banned_users,         \* table banned_users: set of rows [chat_id, user_id, admin_id]
    chat_recent_members,  \* dict chat_id -> OrderedDict (sequence of dicts, oldest first)
    mod,                  \* web_app_data_handler coroutine
    api,                  \* get_chat_info_api_handler coroutine
    ev,                   \* on_my_chat_member coroutines, one per slot
    seen,                 \* history: per chat, the accounts observed, latest last
    delivered,            \* history: the my_chat_member updates delivered
    probe,                \* a call of is_valid_init_data: its argument, its result
    member_status         \* the transport's side: each actor's status in chat 100

vars == <<managed_chats, banned_users, chat_recent_members, mod, api, ev, seen,
          delivered, probe, member_status>>

(***************************************************************************)
(* Values.                                                                 *)
(***************************************************************************)
None == "None"            \* Python None where a string may stand
NoEntry == <<[absent |-> TRUE]>>  \* key absent from the chat_recent_members dict

Chats == {100, 200}
Humans == {7, 9, 42, 55}
BotAccounts == {999}
Accounts == Humans \cup BotAccounts
Titles == {"Test Group", "Renamed"}

\* The cap of the recency cache; 100 in the source, scaled down so that
\* overflow is reached.
MAX_RECENT_MEMBERS_PER_CHAT == 2

\* aiogram ChatMemberStatus
ChatMemberStatus ==
    {"creator", "administrator", "member", "restricted", "left", "kicked"}

\* What an awaited transport call can end with besides a value: a
\* TelegramAPIError (bad request, forbidden, network error, timeout) or an
\* exception of another class (e.g. a response that cannot be decoded).
TelegramAPIError == "TelegramAPIError"
OtherError == "OtherError"
TransportErrors == {TelegramAPIError, OtherError}
Ok == "ok"
CallResults == {Ok} \cup TransportErrors
\* What an awaited store call can end with besides a value.
StoreError == "StoreError"

\* The user object the transport attaches to a message or an admin entry.
TgUser(u) ==
    [id |-> u,
     is_bot |-> u \in BotAccounts,
     first_name |-> IF u = 7 THEN "Ann" ELSE IF u = 9 THEN "Bob" ELSE "Usr",
     last_name |-> IF u \in {7, 42} THEN None ELSE "Lee",
     username |-> IF u \in {9, 42} THEN None ELSE "nick"]

\* x or ""
OrEmpty(x) == IF x = None THEN "" ELSE x

\* {"id": ..., "first_name": ..., "last_name": ... or "", "username": ... or ""}
UserInfo(user) ==
    [id |-> user.id, first_name |-> user.first_name,
     last_name |-> OrEmpty(user.last_name), username |-> OrEmpty(user.username)]

\* d[key] = value on a dict
DictSet(d, key, value) ==
    [k \in (DOMAIN d) \cup {key} |-> IF k = key THEN value ELSE d[k]]

(***************************************************************************)
(* OrderedDict keyed by user id, as the sequence of its values.            *)
(***************************************************************************)
OdKeys(od) == {od[i].id : i \in 1..Len(od)}

OdIndex(od, key) == CHOOSE i \in 1..Len(od) : od[i].id = key

\* od[key] = value: a present key keeps its place, a new key goes last
OdSet(od, key, value) ==
    IF key \in OdKeys(od)
    THEN [od EXCEPT ![OdIndex(od, key)] = value]
    ELSE Append(od, value)

OdMoveToEnd_Noop(od, key) == od

\* od.move_to_end(key)
OdMoveToEnd(od, key) ==
    LET i == OdIndex(od, key)
    IN  SubSeq(od, 1, i - 1) \o SubSeq(od, i + 1, Len(od)) \o <<od[i]>>

OdPopItem_Last(od) == SubSeq(od, 1, Len(od) - 1)

\* od.popitem(last=False)
OdPopItem(od) == Tail(od)

TrimToCap_NoLimit(od) == od

\* while len(od) > MAX_RECENT_MEMBERS_PER_CHAT: od.popitem(last=False)
RECURSIVE TrimToCap(_)
TrimToCap(od) ==
    IF Len(od) > MAX_RECENT_MEMBERS_PER_CHAT THEN TrimToCap(OdPopItem(od)) ELSE od

\* reversed(od.items())
RECURSIVE Reversed(_)
Reversed(s) == IF s = <<>> THEN <<>> ELSE Append(Reversed(Tail(s)), Head(s))

\* The cache entry of a chat after remember_member_handler's body ran for user.
Remembered(entry, user) ==
    LET od0 == IF entry = NoEntry THEN <<>> ELSE entry
        od1 == OdSet(od0, user.id, UserInfo(user))
        od2 == OdMoveToEnd(od1, user.id)
    IN  TrimToCap(od2)

(***************************************************************************)
(* Strings that are parsed.  A string is a sequence of tokens: Ch(c) is a  *)
(* single character, or a run of unreserved characters standing for a      *)
(* word; Js(n) is the text of a JSON object; Mac(k, m) is a hex digest.    *)
(***************************************************************************)
Ch(c) == <<"c", c>>
\* The text of a JSON object {"id": n, ...}; n = 0 is "id": 0 and n = -1 an
\* object without "id".
Js(n) == <<"json", n>>
\* The text of a JSON value that is not an object, e.g. [1].
JsList == <<"jsonlist", 0>>
\* HMAC-SHA256 as a collision-free, unforgeable symbolic function.
Hmac(key, msg) == <<"mac", key, msg>>

Word(w) == <<Ch(w)>>

RECURSIVE Join(_, _)
Join(parts, sep) ==
    IF parts = <<>> THEN <<>>
    ELSE IF Len(parts) = 1 THEN parts[1]
    ELSE parts[1] \o sep \o Join(Tail(parts), sep)

\* Index of the first occurrence of token t in s, 0 when there is none.
RECURSIVE Find(_, _)
Find(s, t) ==
    IF s = <<>> THEN 0
    ELSE IF Head(s) = t THEN 1
    ELSE LET r == Find(Tail(s), t) IN IF r = 0 THEN 0 ELSE r + 1

\* s.split(t)
RECURSIVE Split(_, _)
Split(s, t) ==
    LET i == Find(s, t)
    IN  IF i = 0 THEN <<s>>
        ELSE <<SubSeq(s, 1, i - 1)>> \o Split(SubSeq(s, i + 1, Len(s)), t)

\* The character a percent escape %xy stands for, None when it is no escape
\* of the alphabet.
HexCode(x, y) ==
    IF x = Ch("2") /\ y = Ch("6") THEN "&"
    ELSE IF x = Ch("3") /\ y = Ch("D") THEN "="
    ELSE IF x = Ch("2") /\ y = Ch("5") THEN "%"
    ELSE IF x = Ch("2") /\ y = Ch("B") THEN "+"
    ELSE IF x = Ch("2") /\ y = Ch("0") THEN " "
    ELSE None

\* urllib.parse.unquote: every %xy escape is replaced, anything else kept.
RECURSIVE unquote(_)
unquote(s) ==
    IF s = <<>> THEN <<>>
    ELSE IF Head(s) = Ch("%") /\ Len(s) >= 3 /\ HexCode(s[2], s[3]) # None
         THEN <<Ch(HexCode(s[2], s[3]))>> \o unquote(SubSeq(s, 4, Len(s)))
         ELSE <<Head(s)>> \o unquote(Tail(s))

\* s.replace('+', ' ')
PlusToSpace(s) == [i \in 1..Len(s) |-> IF s[i] = Ch("+") THEN Ch(" ") ELSE s[i]]

\* urllib.parse.parse_qsl(qs, keep_blank_values): the (name, value) pairs.
RECURSIVE ParseSegments(_, _)
ParseSegments(segs, keep_blank_values) ==
    IF segs = <<>> THEN <<>>
    ELSE LET seg == Head(segs)
             rest == ParseSegments(Tail(segs), keep_blank_values)
             i == Find(seg, Ch("="))
             name == IF i = 0 THEN seg ELSE SubSeq(seg, 1, i - 1)
             value == IF i = 0 THEN <<>> ELSE SubSeq(seg, i + 1, Len(seg))
         IN  IF seg = <<>> THEN rest
             ELSE IF i = 0 /\ ~keep_blank_values THEN rest
             ELSE IF value # <<>> \/ keep_blank_values
                  THEN <<<<unquote(PlusToSpace(name)), unquote(PlusToSpace(value))>>>> \o rest
                  ELSE rest

parse_qsl(qs, keep_blank_values) == ParseSegments(Split(qs, Ch("&")), keep_blank_values)

\* dict(pairs): the keys, and the value of a key (the last pair wins)
DictKeys(pairs) == {pairs[i][1] : i \in 1..Len(pairs)}
DictGet(pairs, key) ==
    LET last == CHOOSE i \in 1..Len(pairs) :
                    /\ pairs[i][1] = key
                    /\ \A j \in (i + 1)..Len(pairs) : pairs[j][1] # key
    IN  pairs[last][2]

\* Order of characters (code points) for sorted().
TokRank(t) ==
    IF t[1] # "c" THEN 200
    ELSE CASE t[2] = " " -> 32 [] t[2] = "%" -> 37 [] t[2] = "&" -> 38
           [] t[2] = "+" -> 43 [] t[2] = "0" -> 48 [] t[2] = "2" -> 50
           [] t[2] = "3" -> 51 [] t[2] = "5" -> 53 [] t[2] = "6" -> 54
           [] t[2] = "=" -> 61 [] t[2] = "B" -> 66 [] t[2] = "D" -> 68
           [] t[2] = "auth_date" -> 97 [] t[2] = "hash" -> 104
           [] t[2] = "query_id" -> 113 [] t[2] = "user" -> 117
           [] OTHER -> 120

RECURSIVE StrLess(_, _)
StrLess(a, b) ==
    IF b = <<>> THEN FALSE
    ELSE IF a = <<>> THEN TRUE
    ELSE IF TokRank(Head(a)) # TokRank(Head(b)) THEN TokRank(Head(a)) < TokRank(Head(b))
    ELSE StrLess(Tail(a), Tail(b))

\* sorted(keys)
RECURSIVE Sorted(_)
Sorted(keys) ==
    IF keys = {} THEN <<>>
    ELSE LET m == CHOOSE k \in keys : \A o \in keys \ {k} : ~StrLess(o, k)
         IN  <<m>> \o Sorted(keys \ {m})

\* "\n".join(f"{k}={v}" for k, v in sorted(parsed_data.items()))
DataCheckString(pairs, keys) ==
    LET ks == Sorted(keys)
    IN  Join([i \in 1..Len(ks) |-> ks[i] \o <<Ch("=")>> \o DictGet(pairs, ks[i])],
             <<Ch("\n")>>)

\* hmac.new("WebAppData".encode(), bot_token.encode(), hashlib.sha256).digest()
SecretKey(bot_token) == Hmac("WebAppData", bot_token)

is_valid_init_data_NoCheck(init_data, bot_token) == TRUE

\* is_valid_init_data: any exception (here the KeyError of pop("hash")) is False
is_valid_init_data(init_data, bot_token) ==
    LET parsed_data == parse_qsl(unquote(init_data), TRUE)
    IN  IF Word("hash") \notin DictKeys(parsed_data) THEN FALSE
        ELSE LET received_hash == DictGet(parsed_data, Word("hash"))
                 data_check_string ==
                     DataCheckString(parsed_data, DictKeys(parsed_data) \ {Word("hash")})
                 calculated_hash == <<Hmac(SecretKey(bot_token), data_check_string)>>
             IN  calculated_hash = received_hash

(***************************************************************************)
(* The store (database.py).  A store call either fails (StoreError) or     *)
(* runs its statement, given here as the table after it.                   *)
(***************************************************************************)
BanRow(chat_id, user_id, admin_id) ==
    [chat_id |-> chat_id, user_id |-> user_id, admin_id |-> admin_id]

BanRows(table, chat_id, user_id) ==
    {r \in table : r.chat_id = chat_id /\ r.user_id = user_id}

\* INSERT without the ON CONFLICT clause: UNIQUE(chat_id, user_id) rejects it
ban_user_NoConflictClause(table, chat_id, user_id, admin_id) ==
    IF BanRows(table, chat_id, user_id) # {}
    THEN [table |-> table, raised |-> TRUE]
    ELSE [table |-> table \cup {BanRow(chat_id, user_id, admin_id)}, raised |-> FALSE]

\* INSERT INTO banned_users ... ON CONFLICT (chat_id, user_id) DO NOTHING:
\* the table after it, and whether the statement raised
ban_user(table, chat_id, user_id, admin_id) ==
    IF BanRows(table, chat_id, user_id) # {}
    THEN [table |-> table, raised |-> FALSE]
    ELSE [table |-> table \cup {BanRow(chat_id, user_id, admin_id)}, raised |-> FALSE]

\* DELETE FROM banned_users WHERE chat_id = $1 AND user_id = $2
unban_user(table, chat_id, user_id) == table \ BanRows(table, chat_id, user_id)

\* SELECT 1 FROM banned_users WHERE chat_id = $1 AND user_id = $2
is_user_banned(table, chat_id, user_id) == BanRows(table, chat_id, user_id) # {}

\* INSERT ... ON CONFLICT (chat_id) DO NOTHING
add_chat_KeepsTitle(table, chat_id, chat_title) ==
    IF table[chat_id] # None THEN table ELSE [table EXCEPT ![chat_id] = chat_title]

\* INSERT INTO managed_chats ... ON CONFLICT (chat_id) DO UPDATE SET chat_title = $2
add_chat(table, chat_id, chat_title) == [table EXCEPT ![chat_id] = chat_title]

\* DELETE FROM managed_chats WHERE chat_id = $1
remove_chat(table, chat_id) == [table EXCEPT ![chat_id] = None]

(***************************************************************************)
(* is_user_admin_in_chat: from what bot.get_chat_member ended with (a      *)
(* member status, or an exception) to "True", "False", or "Raised" when    *)
(* the exception is not caught and reaches the caller.                     *)
(***************************************************************************)
LookupOutcomes == ChatMemberStatus \cup TransportErrors

is_user_admin_in_chat(outcome) ==
    IF outcome \in ChatMemberStatus
    THEN IF outcome \in {"administrator", "creator"} THEN "True" ELSE "False"
    ELSE IF outcome = TelegramAPIError THEN "False"
    ELSE "Raised"

(***************************************************************************)
(* web_app_data_handler.                                                   *)
(***************************************************************************)
\* JSON values of the payload's fields
JNone == <<"none", 0>>       \* the key is missing, or null: data.get gives None
JStr(s) == <<"str", s>>
JInt(n) == <<"int", n>>

\* bool(v), as all([...]) takes it
Truthy(v) == v # JNone /\ v # JStr("") /\ v # JInt(0)

\* int(v): [ok, val]; not ok is the ValueError or TypeError
PyInt(v) ==
    IF v[1] = "int" THEN [ok |-> TRUE, val |-> v[2]]
    ELSE IF v = JStr("100") THEN [ok |-> TRUE, val |-> 100]
    ELSE IF v = JStr("200") THEN [ok |-> TRUE, val |-> 200]
    ELSE [ok |-> FALSE, val |-> 0]

Actors == {7, 42}
Targets == {55}
Actions == {"ban", "kick", "mute", "warn"}

\* message.web_app_data.data after json.loads: a dict, a JSON value that is
\* no dict, or text that is no JSON.
Payload(action, user_id, chat_id) ==
    [kind |-> "dict", action |-> action, user_id |-> user_id, chat_id |-> chat_id]
NotJson == [kind |-> "notjson"]
JsonList == [kind |-> "list"]

Payloads ==
    {Payload(JStr(a), JInt(u), JStr(c)) : a \in Actions, u \in Targets, c \in {"100", "200"}}
    \cup {Payload(JStr("ban"), JInt(55), c) : c \in {JNone, JStr(""), JStr("abc"), JInt(100)}}
    \cup {Payload(JStr("ban"), u, JStr("100")) : u \in {JNone, JInt(0)}}
    \cup {Payload(a, JInt(55), JStr("100")) : a \in {JNone, JStr(""), JStr("promote")}}
    \cup {NotJson, JsonList}

\* Lines 178-184: [ok, action, user_id, chat_id]; not ok is an exception raised
\* before the first await.
ParsePayload(payload) ==
    LET bad == [ok |-> FALSE, action |-> JNone, user_id |-> JNone, chat_id |-> 0]
    IN  IF payload.kind # "dict" THEN bad
        ELSE IF ~(Truthy(payload.action) /\ Truthy(payload.user_id) /\ Truthy(payload.chat_id))
             THEN bad
        ELSE IF ~PyInt(payload.chat_id).ok THEN bad
        ELSE [ok |-> TRUE, action |-> payload.action, user_id |-> payload.user_id,
              chat_id |-> PyInt(payload.chat_id).val]

\* The coroutine: its place (pc: the call it awaits), its locals, and what it
\* has done so far: the calls it issued, those that returned, the answers the
\* actor received.  lookup is what get_chat_member ended with, kept until the
\* next call returns; conflict and after_ban are set by ModBanUser and
\* ModStart; payload is the message's data and ledger the banned_users table
\* when the message arrived.
ModIdle ==
    [pc |-> "idle", admin_id |-> 0, action |-> JNone, user_id |-> JNone, chat_id |-> 0,
     lookup |-> "Unset", auth |-> "Unset", conflict |-> FALSE, after_ban |-> FALSE,
     payload |-> NotJson, ledger |-> {},
     issued |-> {}, ok |-> {}, replies |-> <<>>]

FirstCall_WriteFirst(action) ==
    IF action = JStr("ban") THEN "db_ban_user"
    ELSE IF action = JStr("kick") THEN "ban_chat_member"
    ELSE IF action = JStr("warn") THEN "send_message"
    ELSE IF action = JStr("mute") THEN "restrict_chat_member"
    ELSE "answer_internal"

FirstCall_UnknownWarns(action) ==
    IF action \in {JStr("ban"), JStr("kick")} THEN "ban_chat_member"
    ELSE IF action = JStr("mute") THEN "restrict_chat_member"
    ELSE "send_message"

\* The await the handler reaches once the target's name is known (lines
\* 195-217): the first call of the action, or the ValueError of an unknown one.
FirstCall(action) ==
    IF action \in {JStr("ban"), JStr("kick")} THEN "ban_chat_member"
    ELSE IF action = JStr("warn") THEN "send_message"
    ELSE IF action = JStr("mute") THEN "restrict_chat_member"
    ELSE "answer_internal"

InnerTry ==
    {"ban_chat_member", "db_ban_user", "unban_chat_member", "restrict_chat_member",
     "send_message", "answer_ok"}

Answers == {"answer_rights", "answer_ok", "answer_fail", "answer_internal"}

AuthGate_Open(res) == IF res = "Raised" THEN "answer_internal" ELSE "get_chat"

\* Lines 185-189: where the handler goes with what is_user_admin_in_chat gave
AuthGate(res) ==
    IF res = "True" THEN "get_chat"
    ELSE IF res = "False" THEN "answer_rights"
    ELSE "answer_internal"

\* Where the handler goes when the call it awaits at pc ends with res; for
\* get_chat_member res is what is_user_admin_in_chat made of the lookup.
ModAfter(action, pc, res) ==
    CASE pc = "get_chat_member" -> AuthGate(res)
      [] pc = "answer_rights" -> IF res = Ok THEN "done" ELSE "answer_internal"
      [] pc = "get_chat" -> IF res = Ok THEN FirstCall(action) ELSE "answer_internal"
      [] pc \in InnerTry /\ res = TelegramAPIError -> "answer_fail"
      [] pc \in InnerTry /\ res \in {OtherError, StoreError} -> "answer_internal"
      [] pc = "ban_chat_member" /\ res = Ok ->
            IF action = JStr("ban") THEN "db_ban_user" ELSE "unban_chat_member"
      [] pc = "db_ban_user" /\ res = Ok -> "send_message"
      [] pc = "unban_chat_member" /\ res = Ok -> "send_message"
      [] pc = "restrict_chat_member" /\ res = Ok -> "send_message"
      [] pc = "send_message" /\ res = Ok -> "answer_ok"
      [] pc = "answer_ok" /\ res = Ok -> "done"
      [] pc = "answer_fail" -> IF res = Ok THEN "done" ELSE "answer_internal"
      [] pc = "answer_internal" -> IF res = Ok THEN "done" ELSE "crashed"

ModFinished == {"idle", "done", "crashed"}
ModSuspended == mod.pc \notin ModFinished

\* The coroutine m moved to pc: the call awaited there is issued
ModGoto(m, pc) ==
    [m EXCEPT !.pc = pc, !.issued = IF pc \in ModFinished THEN @ ELSE @ \cup {pc}]

\* The coroutine m after the call it awaits ended with res
ModReturned(m, res) ==
    ModGoto([m EXCEPT !.lookup = "Unset",
                      !.ok = IF res = Ok THEN @ \cup {m.pc} ELSE @,
                      !.replies = IF res = Ok /\ m.pc \in Answers THEN Append(@, m.pc) ELSE @],
            ModAfter(m.action, m.pc, res))

\* The request m, handled last, was a ban of the pair of p that ended with the
\* success reply
BanSucceeded(m, p) ==
    /\ m.pc = "done"
    /\ m.action = JStr("ban")
    /\ m.replies = <<"answer_ok">>
    /\ m.chat_id = p.chat_id
    /\ m.user_id = p.user_id

\* A web_app_data message arrives: lines 175-185, up to the first await.
ModStart(admin_id, payload) ==
    /\ ~ModSuspended
    /\ LET p == ParsePayload(payload)
       IN  mod' = ModGoto([ModIdle EXCEPT !.admin_id = admin_id, !.action = p.action,
                                          !.user_id = p.user_id, !.chat_id = p.chat_id,
                                          !.after_ban = p.ok /\ BanSucceeded(mod, p),
                                          !.payload = payload, !.ledger = banned_users],
                          IF p.ok THEN "get_chat_member" ELSE "answer_internal")
    /\ UNCHANGED <<managed_chats, banned_users, chat_recent_members, api, ev>>

\* bot.get_chat_member returns inside is_user_admin_in_chat (lines 185-187).
ModAuthorize(outcome) ==
    /\ mod.pc = "get_chat_member"
    /\ LET res == is_user_admin_in_chat(outcome)
       IN  mod' = ModGoto([mod EXCEPT !.lookup = outcome, !.auth = res,
                                      !.ok = IF outcome \in ChatMemberStatus
                                             THEN @ \cup {"get_chat_member"} ELSE @],
                          ModAfter(mod.action, "get_chat_member", res))
    /\ UNCHANGED <<managed_chats, banned_users, chat_recent_members, api, ev>>

ModTransportCalls ==
    {"get_chat", "ban_chat_member", "unban_chat_member", "restrict_chat_member",
     "send_message"} \cup Answers

\* An awaited transport call other than the lookup returns or raises.
ModTransport(res) ==
    /\ mod.pc \in ModTransportCalls
    /\ mod' = ModReturned(mod, res)
    /\ UNCHANGED <<managed_chats, banned_users, chat_recent_members, api, ev>>

\* database.ban_user returns or raises (line 197): the store is unavailable
\* (res is StoreError) or runs the statement.  conflict records that the
\* statement ran against an existing row of the pair.
ModBanUser(res) ==
    /\ mod.pc = "db_ban_user"
    /\ LET run == ban_user(banned_users, mod.chat_id, mod.user_id[2], mod.admin_id)
           existed == BanRows(banned_users, mod.chat_id, mod.user_id[2]) # {}
       IN  IF res = Ok
           THEN /\ banned_users' = run.table
                /\ mod' = ModReturned([mod EXCEPT !.conflict = existed],
                                      IF run.raised THEN StoreError ELSE Ok)
           ELSE /\ banned_users' = banned_users
                /\ mod' = ModReturned(mod, res)
    /\ UNCHANGED <<managed_chats, chat_recent_members, api, ev>>

web_app_data_handler ==
    \/ \E a \in Actors, p \in Payloads : ModStart(a, p)
    \/ \E o \in LookupOutcomes : ModAuthorize(o)
    \/ \E r \in CallResults : ModTransport(r)
    \/ \E r \in {Ok, StoreError} : ModBanUser(r)

(***************************************************************************)
(* The panel read and the cache share dict objects: all_members holds the  *)
(* cache's own dicts (line 260), so an entry copied from the cache is an   *)
(* alias of the cached dict until the cache replaces or drops that dict.   *)
(***************************************************************************)
ApiInLoop == api.pc \in {"is_user_banned", "get_user_profile_photos"}

\* api after the cache of chat_id replaced or dropped its dicts for ids
BreakAlias(a, chat_id, ids) ==
    IF a.chat_id # chat_id THEN a
    ELSE [a EXCEPT !.all_members =
            [i \in 1..Len(@) |->
                IF @[i].rec.id \in ids THEN [@[i] EXCEPT !.alias = FALSE] ELSE @[i]]]

(***************************************************************************)
(* remember_member_handler: no await, one step.                            *)
(***************************************************************************)
\* The filters of line 160: a group message whose text is no command.
MessageKinds == {"text", "command"}
RememberFilter(kind) == kind = "text"

remember_member_handler(chat_id, u, kind) ==
    /\ RememberFilter(kind)
    /\ LET user == TgUser(u)
           old == chat_recent_members[chat_id]
           new == Remembered(old, user)
           gone == IF old = NoEntry THEN {} ELSE (OdKeys(old) \ OdKeys(new)) \cup {u}
       IN  IF user.is_bot
           THEN UNCHANGED <<chat_recent_members, api>>
           ELSE /\ chat_recent_members' = [chat_recent_members EXCEPT ![chat_id] = new]
                /\ api' = BreakAlias(api, chat_id, gone)
    /\ UNCHANGED <<managed_chats, banned_users, mod, ev>>

(***************************************************************************)
(* on_my_chat_member.                                                      *)
(***************************************************************************)
EvIdle == [pc |-> "idle", chat_id |-> 0, chat_title |-> None]

\* The coroutines of on_my_chat_member that can be in flight together: each
\* webhook request runs the handler in a task of its own (lines 292-312).
EvSlots == {1, 2}

EvSuspended(s) == ev[s].pc \notin {"idle", "done", "crashed"}

\* The coroutine ended: it returned ("done") or an exception left it
\* ("crashed", which webhook_route_handler answers with 500).
EvEnd(pc) == [EvIdle EXCEPT !.pc = pc]

\* The branch of lines 109 and 123
EvBranch(new_status) ==
    IF new_status = "administrator" THEN "add_chat"
    ELSE IF new_status \in {"member", "left", "kicked"} THEN "remove_chat"
    ELSE "done"

\* A my_chat_member update arrives: lines 107-110 or 123-124, up to the await.
EvStart(s, chat_id, chat_title, new_status) ==
    /\ ~EvSuspended(s)
    /\ ev' = [ev EXCEPT ![s] =
                IF EvBranch(new_status) = "done" THEN EvEnd("done")
                ELSE [pc |-> EvBranch(new_status), chat_id |-> chat_id,
                      chat_title |-> chat_title]]
    /\ UNCHANGED <<managed_chats, banned_users, chat_recent_members, mod, api>>

\* database.add_chat returns or raises (line 110); an exception leaves the handler.
EvAddChat(s, res) ==
    /\ ev[s].pc = "add_chat"
    /\ managed_chats' =
          IF res = Ok THEN add_chat(managed_chats, ev[s].chat_id, ev[s].chat_title)
          ELSE managed_chats
    /\ ev' = [ev EXCEPT ![s] = IF res = Ok THEN [@ EXCEPT !.pc = "get_me"]
                               ELSE EvEnd("crashed")]
    /\ UNCHANGED <<banned_users, chat_recent_members, mod, api>>

\* bot.get_me, then bot.send_message return or raise (lines 111-122).
EvTransport(s, res) ==
    /\ ev[s].pc \in {"get_me", "send_message"}
    /\ ev' = [ev EXCEPT ![s] =
                IF res # Ok THEN EvEnd("crashed")
                ELSE IF @.pc = "get_me" THEN [@ EXCEPT !.pc = "send_message"]
                ELSE EvEnd("done")]
    /\ UNCHANGED <<managed_chats, banned_users, chat_recent_members, mod, api>>

\* database.remove_chat returns or raises, then line 125 drops the cache entry.
EvRemoveChat(s, res) ==
    /\ ev[s].pc = "remove_chat"
    /\ IF res = Ok
       THEN /\ managed_chats' = remove_chat(managed_chats, ev[s].chat_id)
            /\ chat_recent_members' =
                  [chat_recent_members EXCEPT ![ev[s].chat_id] = NoEntry]
            /\ api' = BreakAlias(api, ev[s].chat_id, Accounts)
            /\ ev' = [ev EXCEPT ![s] = EvEnd("done")]
       ELSE /\ ev' = [ev EXCEPT ![s] = EvEnd("crashed")]
            /\ UNCHANGED <<managed_chats, chat_recent_members, api>>
    /\ UNCHANGED <<banned_users, mod>>

\* The handler in these slots, for updates about these chats with these titles
on_my_chat_member(slots, chats, titles) ==
    \/ \E s \in slots, c \in chats, t \in titles, st \in ChatMemberStatus :
          EvStart(s, c, t, st)
    \/ \E s \in slots, r \in {Ok, StoreError} : EvAddChat(s, r)
    \/ \E s \in slots, r \in CallResults : EvTransport(s, r)
    \/ \E s \in slots, r \in {Ok, StoreError} : EvRemoveChat(s, r)

(***************************************************************************)
(* Init data as the platform's client builds it, and the requests of the   *)
(* panel.                                                                  *)
(***************************************************************************)
BOT_TOKEN == "bot-token"
OtherToken == "other-token"

\* urllib.parse.quote of a value, as the client encodes it
RECURSIVE Quote(_)
Quote(s) ==
    IF s = <<>> THEN <<>>
    ELSE (CASE Head(s) = Ch("&") -> <<Ch("%"), Ch("2"), Ch("6")>>
            [] Head(s) = Ch("=") -> <<Ch("%"), Ch("3"), Ch("D")>>
            [] Head(s) = Ch("%") -> <<Ch("%"), Ch("2"), Ch("5")>>
            [] Head(s) = Ch("+") -> <<Ch("%"), Ch("2"), Ch("B")>>
            [] Head(s) = Ch(" ") -> <<Ch("%"), Ch("2"), Ch("0")>>
            [] OTHER -> <<Head(s)>>) \o Quote(Tail(s))

\* key=value&... of the pairs, in the order given
QueryString(pairs) ==
    Join([i \in 1..Len(pairs) |-> Quote(pairs[i][1]) \o <<Ch("=")>> \o Quote(pairs[i][2])],
         <<Ch("&")>>)

\* The hash the platform computes over the fields with token
FieldsHash(fields, token) ==
    <<Hmac(SecretKey(token), DataCheckString(fields, DictKeys(fields)))>>

UserFields(user_value) ==
    <<<<Word("user"), user_value>>, <<Word("auth_date"), Word("1700000000")>>>>

\* Init data of the fields, signed with token
SignedInitData(fields, token) ==
    QueryString(Append(fields, <<Word("hash"), FieldsHash(fields, token)>>))

UserValues == {<<Js(7)>>, <<Js(42)>>, <<Js(0)>>, <<Js(-1)>>, <<JsList>>, Word("x"), <<>>}

\* Init data the platform issued for the user field v: signed with the bot's
\* token, the hash last or first
IssuedInitDatas(v) ==
    {SignedInitData(UserFields(v), BOT_TOKEN),
     QueryString(<<<<Word("hash"), FieldsHash(UserFields(v), BOT_TOKEN)>>,
                   <<Word("auth_date"), Word("1700000000")>>,
                   <<Word("user"), v>>>>)}

\* Init data the platform issued: for each user field, and one without a user
GenuineInitDatas ==
    {SignedInitData(UserFields(v), BOT_TOKEN) : v \in UserValues}
    \cup IssuedInitDatas(<<Js(7)>>)
    \cup {SignedInitData(<<<<Word("auth_date"), Word("1700000000")>>>>, BOT_TOKEN)}

\* Init data the platform did not issue
ForgedInitDatas ==
    \* signed with another token
    {SignedInitData(UserFields(<<Js(7)>>), OtherToken)}
    \* signed for user 42, the user field replaced
    \cup {QueryString(Append(UserFields(<<Js(7)>>),
                             <<Word("hash"), FieldsHash(UserFields(<<Js(42)>>), BOT_TOKEN)>>))}
    \* no hash; nothing at all
    \cup {QueryString(UserFields(<<Js(7)>>))}
    \cup {<<>>}

InitDatas == GenuineInitDatas \cup ForgedInitDatas

NoHeader == [present |-> FALSE, value |-> <<>>]
Header(s) == [present |-> TRUE, value |-> s]

\* "tma <init data>"
TmaHeader(d) == Header(<<Ch("tma"), Ch(" ")>> \o d)

AuthHeaders ==
    {NoHeader, Header(<<>>), Header(Word("tma"))}
    \cup {Header(<<Ch("Bearer"), Ch(" ")>> \o d) : d \in {SignedInitData(UserFields(<<Js(7)>>), BOT_TOKEN)}}
    \cup {TmaHeader(d) : d \in InitDatas}

ChatIdParams == {JNone, JStr("abc"), JStr("100"), JStr("200")}

\* not auth_header or not auth_header.startswith("tma ")
HeaderRejected(h) ==
    \/ ~h.present
    \/ h.value = <<>>
    \/ ~(Len(h.value) >= 2 /\ h.value[1] = Ch("tma") /\ h.value[2] = Ch(" "))

\* auth_header.split(" ", 1)[1]
HeaderInitData(h) == SubSeq(h.value, Find(h.value, Ch(" ")) + 1, Len(h.value))

\* Lines 243-245: [ok, id] of user_info.get("id"); id = 0 is a falsy id (None
\* or 0); not ok is the exception of json.loads or of .get on a non-dict.
ParseUser(init_data) ==
    LET query_params == parse_qsl(unquote(init_data), FALSE)
        text == IF Word("user") \in DictKeys(query_params)
                THEN DictGet(query_params, Word("user"))
                ELSE <<Js(-1)>>
    IN  IF Len(text) = 1 /\ text[1][1] = "json"
        THEN [ok |-> TRUE, id |-> IF text[1][2] < 0 THEN 0 ELSE text[1][2]]
        ELSE [ok |-> FALSE, id |-> 0]

(***************************************************************************)
(* get_chat_info_api_handler.                                              *)
(***************************************************************************)
NoResponse == [status |-> 0, members |-> <<>>]
Response(status) == [status |-> status, members |-> <<>>]

\* The coroutine: its place, its locals (chat_id, user_id, all_members, idx),
\* its response, and the facts of the request: header and param (the
\* Authorization header and the chat_id parameter it came with), user_read (line 244 decoded the user field), lookup
\* (what get_chat_member ended with), row (the chat_title of the row fetchrow
\* gave, None for no row), admins (the list get_chat_administrators gave) and
\* recent (the ids of the chat's cache entry when line 259 read it).
ApiIdle ==
    [pc |-> "idle", header |-> NoHeader, param |-> JNone, chat_id |-> 0, user_id |-> 0,
     user_read |-> FALSE, lookup |-> "Unset", row |-> "Unset",
     admins |-> <<>>, recent |-> <<>>,
     all_members |-> <<>>, idx |-> 0, response |-> NoResponse]

ApiSuspended == api.pc \notin {"idle", "done"}

\* The coroutine returned a response of this status
ApiDone(a, status) ==
    [a EXCEPT !.pc = "done", !.all_members = <<>>, !.idx = 0, !.response = Response(status)]

\* Lines 241-246 once the header was accepted and the signature checked
ApiAfterSignature(a, init_data, chat_id_param) ==
    LET chat == PyInt(chat_id_param)
        user == ParseUser(init_data)
    IN  IF ~chat.ok THEN ApiDone(a, 500)
        ELSE IF ~user.ok THEN ApiDone([a EXCEPT !.user_read = TRUE], 500)
        ELSE IF user.id = 0 THEN ApiDone([a EXCEPT !.user_read = TRUE], 403)
        ELSE [a EXCEPT !.pc = "get_chat_member", !.chat_id = chat.val,
                       !.user_id = user.id, !.user_read = TRUE]

\* Lines 235-246, up to the first await
ApiBegin(auth_header, chat_id_param) ==
    LET a == [ApiIdle EXCEPT !.header = auth_header, !.param = chat_id_param]
    IN  IF HeaderRejected(auth_header) THEN ApiDone(a, 401)
        ELSE LET init_data == HeaderInitData(auth_header)
             IN  IF ~is_valid_init_data(init_data, BOT_TOKEN) THEN ApiDone(a, 403)
                 ELSE ApiAfterSignature(a, init_data, chat_id_param)

\* A GET /api/chat_info arrives.
ApiStart(auth_header, chat_id_param) ==
    /\ ~ApiSuspended
    /\ api' = ApiBegin(auth_header, chat_id_param)
    /\ UNCHANGED <<managed_chats, banned_users, chat_recent_members, mod, ev>>

\* What the handler does with what is_user_admin_in_chat gave (lines 246-247)
ApiAuthorized(a, res) ==
    IF res = "True" THEN [a EXCEPT !.pc = "fetchrow"]
    ELSE ApiDone(a, IF res = "False" THEN 403 ELSE 500)

\* bot.get_chat_member returns inside is_user_admin_in_chat.
ApiAuthorize(outcome) ==
    /\ api.pc = "get_chat_member"
    /\ api' = ApiAuthorized([api EXCEPT !.lookup = outcome], is_user_admin_in_chat(outcome))
    /\ UNCHANGED <<managed_chats, banned_users, chat_recent_members, mod, ev>>

\* What the handler does with the row of the chat (lines 249-250)
ApiRowFetched(a, title) ==
    IF title = None THEN ApiDone(a, 404)
    ELSE [a EXCEPT !.pc = "get_chat_administrators"]

\* db_pool.fetchrow returns the row, or raises.
ApiFetchRow(res) ==
    /\ api.pc = "fetchrow"
    /\ api' = IF res # Ok THEN ApiDone(api, 500)
              ELSE ApiRowFetched([api EXCEPT !.row = managed_chats[api.chat_id]],
                                 managed_chats[api.chat_id])
    /\ UNCHANGED <<managed_chats, banned_users, chat_recent_members, mod, ev>>

\* Lines 254-256: the admins that are no bots, one dict each, in order
RECURSIVE AdminEntries(_)
AdminEntries(admins) ==
    IF admins = <<>> THEN <<>>
    ELSE LET user == TgUser(Head(admins))
             rest == AdminEntries(Tail(admins))
         IN  IF user.is_bot THEN rest
             ELSE <<[rec |-> UserInfo(user), src |-> "admin", alias |-> FALSE]>> \o rest

EntryIds(entries) == {entries[i].rec.id : i \in 1..Len(entries)}

MergeRecent_NoSkip(all_members, items) ==
    all_members \o [i \in 1..Len(items) |-> [rec |-> items[i], src |-> "recent", alias |-> TRUE]]

\* Lines 259-260: the items, in the order given, that all_members lacks
RECURSIVE MergeRecent(_, _)
MergeRecent(all_members, items) ==
    IF items = <<>> THEN all_members
    ELSE MergeRecent(
            IF Head(items).id \in EntryIds(all_members) THEN all_members
            ELSE Append(all_members, [rec |-> Head(items), src |-> "recent", alias |-> TRUE]),
            Tail(items))

\* Lines 258-259: reversed(chat_recent_members[chat_id].items()), nothing for a
\* chat without an entry
RecentItems(entry) == IF entry = NoEntry THEN <<>> ELSE Reversed(entry)

\* Lines 252-260
AllMembers(admins, entry) == MergeRecent(AdminEntries(admins), RecentItems(entry))

\* The 200 response of line 278 (chat_title left out)
Response200(all_members) ==
    [status |-> 200,
     members |-> [i \in 1..Len(all_members) |->
                    [rec |-> all_members[i].rec, src |-> all_members[i].src]]]

\* get_chat_administrators returns or raises (lines 253-264).
ApiAdmins(res, admins) ==
    /\ api.pc = "get_chat_administrators"
    /\ api' =
          IF res # Ok THEN ApiDone(api, 500)
          ELSE LET entry == chat_recent_members[api.chat_id]
                   all == AllMembers(admins, entry)
                   a == [api EXCEPT
                           !.admins = admins,
                           !.recent = IF entry = NoEntry THEN <<>>
                                      ELSE [i \in 1..Len(entry) |-> entry[i].id]]
               IN  IF all = <<>>
                   THEN [ApiDone(a, 200) EXCEPT !.response = Response200(<<>>)]
                   ELSE [a EXCEPT !.pc = "is_user_banned", !.all_members = all, !.idx = 1]
    /\ UNCHANGED <<managed_chats, banned_users, chat_recent_members, mod, ev>>

\* user[key] = value on the dict of entry idx of all_members
EntriesWrite(all_members, idx, key, value) ==
    [all_members EXCEPT ![idx].rec = DictSet(@, key, value)]

\* The cache after user[key] = value on entry e: e's dict is the cache's own
\* dict while e is an alias of it
CacheWrite(cache, chat_id, e, key, value) ==
    IF e.alias
    THEN [cache EXCEPT ![chat_id] =
            [@ EXCEPT ![OdIndex(cache[chat_id], e.rec.id)] = DictSet(@, key, value)]]
    ELSE cache

\* database.is_user_banned returns or raises (line 264).
ApiIsBanned(res) ==
    /\ api.pc = "is_user_banned"
    /\ IF res # Ok
       THEN /\ api' = ApiDone(api, 500)
            /\ UNCHANGED chat_recent_members
       ELSE LET e == api.all_members[api.idx]
                banned == is_user_banned(banned_users, api.chat_id, e.rec.id)
            IN  /\ api' = [api EXCEPT
                             !.pc = "get_user_profile_photos",
                             !.all_members = EntriesWrite(@, api.idx, "is_banned", banned)]
                /\ chat_recent_members' =
                      CacheWrite(chat_recent_members, api.chat_id, e, "is_banned", banned)
    /\ UNCHANGED <<managed_chats, banned_users, mod, ev>>

\* The URL of the account's newest profile photo, None when it has none
ProfilePhoto(u) == IF u = 7 THEN "https://api.telegram.org/file/photo7" ELSE None

\* Lines 266-276: the photo lookups end (an exception gives None) and the dict
\* is appended; after the last one line 278 responds.
ApiPhoto(res) ==
    /\ api.pc = "get_user_profile_photos"
    /\ LET e == api.all_members[api.idx]
           photo_url == IF res = Ok THEN ProfilePhoto(e.rec.id) ELSE None
           all == EntriesWrite(api.all_members, api.idx, "photo_url", photo_url)
       IN  /\ api' = IF api.idx = Len(all)
                     THEN [ApiDone(api, 200) EXCEPT !.response = Response200(all)]
                     ELSE [api EXCEPT !.pc = "is_user_banned", !.all_members = all,
                                      !.idx = @ + 1]
           /\ chat_recent_members' =
                 CacheWrite(chat_recent_members, api.chat_id, e, "photo_url", photo_url)
    /\ UNCHANGED <<managed_chats, banned_users, mod, ev>>

\* What get_chat_administrators can report: accounts in the transport's order
AdminLists ==
    {<<>>} \cup {<<a>> : a \in {7, 9, 999}}
    \cup {p \in {7, 9, 999} \X {7, 9, 999} : p[1] # p[2]}

\* The handler, for requests with these headers and chat_id parameters and a
\* transport that ends the lookup with these outcomes and reports these admin
\* lists
get_chat_info_api_handler(headers, params, outcomes, lists) ==
    \/ \E h \in headers, c \in params : ApiStart(h, c)
    \/ \E o \in outcomes : ApiAuthorize(o)
    \/ \E r \in {Ok, StoreError} : ApiFetchRow(r)
    \/ \E r \in CallResults, a \in lists : ApiAdmins(r, a)
    \/ \E r \in {Ok, StoreError} : ApiIsBanned(r)
    \/ \E r \in {Ok, OtherError} : ApiPhoto(r)

(***************************************************************************)
(* Specifications.                                                         *)
(***************************************************************************)
\* No update was delivered: log lists the updates delivered, in order;
\* store_failed tells that a store call of their handlers raised; managed0 and
\* cache0 are the registry and the cache before the first delivery.
NoDeliveries ==
    [log |-> <<>>, store_failed |-> FALSE,
     managed0 |-> [c \in Chats |-> None], cache0 |-> [c \in Chats |-> NoEntry]]

\* No call of is_valid_init_data was made
\* The statuses of the actors are not followed
NoStatuses == [a \in Actors |-> "Unset"]

NoProbe == [kind |-> "none", init_data |-> <<>>, result |-> "Unset"]

Init ==
    /\ managed_chats = [c \in Chats |-> None]
    /\ banned_users = {}
    /\ chat_recent_members = [c \in Chats |-> NoEntry]
    /\ mod = ModIdle
    /\ api = ApiIdle
    /\ ev = [s \in EvSlots |-> EvIdle]
    /\ seen = [c \in Chats |-> [order |-> <<>>, again |-> FALSE]]
    /\ delivered = NoDeliveries
    /\ probe = NoProbe
    /\ member_status = NoStatuses

\* Group messages in these chats from these accounts
Observe(chats, accounts) ==
    /\ \E c \in chats, u \in accounts, k \in MessageKinds : remember_member_handler(c, u, k)
    /\ UNCHANGED <<seen, delivered, probe, member_status>>

\* Membership updates about these chats with these titles
ChatMemberUpdates(chats, titles) ==
    /\ on_my_chat_member({1}, chats, titles)
    /\ UNCHANGED <<seen, delivered, probe, member_status>>

Moderation ==
    /\ web_app_data_handler
    /\ UNCHANGED <<seen, delivered, probe, member_status>>

PanelReads(headers, params, outcomes, lists) ==
    /\ get_chat_info_api_handler(headers, params, outcomes, lists)
    /\ UNCHANGED <<seen, delivered, probe, member_status>>

\* Everything the process handles
Next ==
    \/ Observe(Chats, Accounts)
    \/ ChatMemberUpdates(Chats, Titles)
    \/ Moderation
    \/ PanelReads(AuthHeaders, ChatIdParams, LookupOutcomes, AdminLists)

Spec == Init /\ [][Next]_vars

\* Moderation requests, while the bot's rank in chat 100 changes
NextModeration ==
    \/ Moderation
    \/ ChatMemberUpdates({100}, {"Test Group"})

SpecModeration == Init /\ [][NextModeration]_vars

\* Panel requests of every kind, while the bot's rank changes
NextAuthn ==
    \/ ChatMemberUpdates(Chats, {"Test Group"})
    \/ PanelReads(AuthHeaders, ChatIdParams, LookupOutcomes,
                  {<<7>>, <<999, 7>>, <<9, 7>>})

SpecAuthn == Init /\ [][NextAuthn]_vars

\* The panel of chat 100 read by user 7, while messages arrive and the bot's
\* rank in chat 100 changes
PanelHeader == TmaHeader(SignedInitData(UserFields(<<Js(7)>>), BOT_TOKEN))

NextPanel ==
    \/ Observe({100}, {7, 9, 55, 999})
    \/ Observe({200}, {9})
    \/ ChatMemberUpdates({100}, {"Test Group"})
    \/ PanelReads({PanelHeader}, {JStr("100")}, {"administrator", "member"},
                  {<<7>>, <<999, 7>>, <<9, 7>>})

SpecPanel == Init /\ [][NextPanel]_vars

\* The history of observations of a chat after account u posts there: order
\* lists the accounts observed since the chat's entry was last dropped, each
\* once, by latest observation; again tells that u was in the entry already.
Logged(h, entry, u) ==
    [order |-> SelectSeq(h.order, LAMBDA x : x # u) \o <<u>>,
     again |-> entry # NoEntry /\ u \in OdKeys(entry)]

NoHistory == [order |-> <<>>, again |-> FALSE]

\* Group messages, with the history of the non-bot accounts observed
ObserveLogged(chats, accounts) ==
    \E c \in chats, u \in accounts, k \in MessageKinds :
        /\ remember_member_handler(c, u, k)
        /\ seen' = IF u \in BotAccounts THEN seen
                   ELSE [seen EXCEPT ![c] = Logged(@, chat_recent_members[c], u)]
        /\ UNCHANGED <<delivered, probe, member_status>>

\* Membership updates; the history of a chat starts over when its entry is dropped
ChatMemberUpdatesLogged(chats, titles) ==
    /\ on_my_chat_member({1}, chats, titles)
    /\ seen' = [c \in Chats |->
                  IF chat_recent_members[c] # NoEntry /\ chat_recent_members'[c] = NoEntry
                  THEN NoHistory ELSE seen[c]]
    /\ UNCHANGED <<delivered, probe, member_status>>

\* Messages of every account in chat 100 and of three in chat 200, while the
\* bot's rank changes
NextCache ==
    \/ ObserveLogged({100}, Accounts)
    \/ ObserveLogged({200}, {7, 9, 42})
    \/ ChatMemberUpdatesLogged(Chats, {"Test Group"})

SpecCache == Init /\ [][NextCache]_vars

(***************************************************************************)
(* Properties of moderation requests (SpecModeration).                     *)
(***************************************************************************)
\* The calls that act on a chat or its members, and the store write
Effects ==
    {"ban_chat_member", "unban_chat_member", "restrict_chat_member", "send_message",
     "db_ban_user"}

\* C1: once the authorization check of a moderation request returned false,
\* the handler has issued no ban, unban, restrict or chat message and no
\* BanRecord write, it has sent the actor the insufficient-rights error, and
\* when that send succeeded the actor got that reply and no other.
C1_UnauthorizedHasNoEffect ==
    mod.auth = "False" =>
        /\ mod.issued \cap Effects = {}
        /\ "answer_rights" \in mod.issued
        /\ ("answer_rights" \in mod.ok => mod.replies = <<"answer_rights">>)

\* A ban by an actor whose lookup gave a non-admin rank ended with the
\* insufficient-rights reply.
C1_Witness ==
    /\ mod.pc = "done"
    /\ mod.action = JStr("ban")
    /\ mod.auth = "False"
    /\ mod.replies = <<"answer_rights">>

\* C3: whenever the lookup of a moderation request failed, by a transport
\* error of any kind, the authorization check returned false.
C3_LookupFailureIsFalse ==
    mod.lookup \in TransportErrors => mod.auth = "False"

\* C4: a moderation request for a chat that is not in ManagedChat, and never
\* was (no membership update has been handled), has issued no ban, unban,
\* restrict or chat message and no BanRecord write.
C4_UnmanagedChatNotServiced ==
    (/\ mod.pc # "idle"
     /\ mod.chat_id \in Chats
     /\ \A s \in EvSlots : ev[s] = EvIdle
     /\ managed_chats[mod.chat_id] = None)
    => mod.issued \cap Effects = {}

\* C5: when the store write of a ban ran for a pair that had a BanRecord, the
\* write succeeded, the pair has exactly one BanRecord, and if the chat
\* notice and the reply were delivered the request ended with the success
\* reply alone.
C5_SecondBanSucceeds ==
    (mod.action = JStr("ban") /\ mod.conflict) =>
        /\ "db_ban_user" \in mod.ok
        /\ Cardinality(BanRows(banned_users, mod.chat_id, mod.user_id[2])) = 1
        /\ (mod.pc = "done" /\ {"send_message", "answer_ok"} \subseteq mod.ok
              => mod.replies = <<"answer_ok">>)

\* A ban of the pair that followed a successful ban of it by another actor
\* ended with the success reply.
C5_Witness ==
    /\ mod.pc = "done"
    /\ mod.action = JStr("ban")
    /\ mod.after_ban
    /\ mod.conflict
    /\ mod.replies = <<"answer_ok">>
    /\ \E r \in BanRows(banned_users, mod.chat_id, mod.user_id[2]) : r.admin_id # mod.admin_id

\* C6: when a kick that followed a successful ban of the same pair ended with
\* the success reply, the pair has no BanRecord.
C6_KickClearsBanRecord ==
    (/\ mod.after_ban
     /\ mod.action = JStr("kick")
     /\ mod.pc = "done"
     /\ mod.replies = <<"answer_ok">>)
    => BanRows(banned_users, mod.chat_id, mod.user_id[2]) = {}

(***************************************************************************)
(* Properties of panel reads (SpecAuthn, SpecPanel).                       *)
(***************************************************************************)
\* C2: a panel read answered 200 only if, in that request, the header carried
\* init data the platform issued for the user id the handler used, the lookup
\* of that user in the requested chat gave an administrator or the creator,
\* and the chat's row was found; and the user field was decoded only from
\* init data the platform issued.
C2_ReadNeedsSignatureAdminAndRow ==
    /\ api.response.status = 200 =>
          /\ api.header \in {TmaHeader(d) : d \in IssuedInitDatas(<<Js(api.user_id)>>)}
          /\ api.lookup \in {"administrator", "creator"}
          /\ api.row \in Titles
    /\ api.user_read => api.header \in {TmaHeader(d) : d \in GenuineInitDatas}

\* A read by user 7, with the hash first in the init data, was answered 200.
C2_Witness ==
    /\ api.response.status = 200
    /\ api.user_id = 7
    /\ api.header # PanelHeader

\* The ids of a sequence of dicts
IdsOf(items) == [i \in 1..Len(items) |-> items[i].id]

Distinct(s) == \A i, j \in 1..Len(s) : s[i] = s[j] => i = j

\* C7: in every state, the entry of each chat holds at most
\* MAX_RECENT_MEMBERS_PER_CHAT records and no two records of one user id.
C7_CacheBounded ==
    \A c \in Chats :
        chat_recent_members[c] # NoEntry =>
            /\ Len(chat_recent_members[c]) <= MAX_RECENT_MEMBERS_PER_CHAT
            /\ Distinct(IdsOf(chat_recent_members[c]))

\* A read is in its loop over members, the chat's entry is full, and a member
\* the read took from the entry has been evicted since.
C7_Witness ==
    /\ ApiInLoop
    /\ chat_recent_members[api.chat_id] # NoEntry
    /\ Len(chat_recent_members[api.chat_id]) = MAX_RECENT_MEMBERS_PER_CHAT
    /\ \E i \in 1..Len(api.all_members) :
          /\ api.all_members[i].src = "recent"
          /\ api.all_members[i].rec.id \notin OdKeys(chat_recent_members[api.chat_id])

\* s without its members in ids
Without(s, ids) == SelectSeq(s, LAMBDA x : x \notin ids)

\* The non-bot accounts of an admin list, in its order
NonBotAdmins(admins) == Without(admins, BotAccounts)

\* C10: the member list of a 200 response holds each user id once: first the
\* non-bot administrators in the order the transport listed them, each with
\* the record made from the admin list, then the accounts of the recency
\* entry as it was read, most recently observed first, that are not
\* administrators.
C10_AdminsThenRecent ==
    api.response.status = 200 =>
        LET m == api.response.members
            adm == NonBotAdmins(api.admins)
            rec == Without(Reversed(api.recent), {adm[i] : i \in 1..Len(adm)})
        IN  /\ [i \in 1..Len(m) |-> m[i].rec.id] = adm \o rec
            /\ Distinct([i \in 1..Len(m) |-> m[i].rec.id])
            /\ \A i \in 1..Len(m) :
                  /\ m[i].src = IF i <= Len(adm) THEN "admin" ELSE "recent"
                  /\ \A k \in DOMAIN UserInfo(TgUser(m[i].rec.id)) :
                        m[i].rec[k] = UserInfo(TgUser(m[i].rec.id))[k]

\* A 200 response for an admin list with the bot in it and an administrator
\* who was also in the full recency entry, with members who are not
\* administrators.
C10_Witness ==
    /\ api.response.status = 200
    /\ \E i \in 1..Len(api.admins) : api.admins[i] \in BotAccounts
    /\ \E i \in 1..Len(api.admins), j \in 1..Len(api.recent) : api.admins[i] = api.recent[j]
    /\ Len(api.response.members) > Len(NonBotAdmins(api.admins))
    /\ Len(api.recent) = MAX_RECENT_MEMBERS_PER_CHAT

(***************************************************************************)
(* Properties of the recency cache (SpecCache).                            *)
(***************************************************************************)
\* The last n members of s
LastN(s, n) == IF Len(s) <= n THEN s ELSE SubSeq(s, Len(s) - n + 1, Len(s))

\* C8: the recency entries read for a chat are the
\* MAX_RECENT_MEMBERS_PER_CHAT most recently observed accounts of the chat,
\* most recent first; the accounts observed and not among them are the least
\* recently observed ones.
C8_KeepsMostRecent ==
    \A c \in Chats :
        IdsOf(RecentItems(chat_recent_members[c]))
            = Reversed(LastN(seen[c].order, MAX_RECENT_MEMBERS_PER_CHAT))

\* More accounts than the cap were observed in a chat.
C8_Witness ==
    \E c \in Chats :
        /\ Len(seen[c].order) > MAX_RECENT_MEMBERS_PER_CHAT
        /\ Len(chat_recent_members[c]) = MAX_RECENT_MEMBERS_PER_CHAT

\* C9: a step that observes an account already in a chat's entry leaves the
\* entry with the same accounts, that account moved to the most-recent place
\* and the others in the order they had.
C9_ReobserveMovesToMostRecent ==
    [][\A c \in Chats :
          (seen'[c] # seen[c] /\ seen'[c].again) =>
              LET u == seen'[c].order[Len(seen'[c].order)]
                  old == IdsOf(chat_recent_members[c])
                  new == IdsOf(chat_recent_members'[c])
              IN  /\ new = Without(old, {u}) \o <<u>>
                  /\ Len(new) = Len(old)
                  /\ IdsOf(RecentItems(chat_recent_members'[c]))[1] = u]_vars

\* The latest message in a chat came from an account that was in its full
\* entry, after more accounts than the cap had been observed there.
C9_Witness ==
    \E c \in Chats :
        /\ seen[c].again
        /\ Len(seen[c].order) > MAX_RECENT_MEMBERS_PER_CHAT
        /\ Len(chat_recent_members[c]) = MAX_RECENT_MEMBERS_PER_CHAT

(***************************************************************************)
(* The status of each failed panel read (SpecAuthn).                       *)
(***************************************************************************)
\* Init data the platform issued whose user field is not the text of a JSON
\* object
UndecodableUserInitDatas ==
    {SignedInitData(UserFields(v), BOT_TOKEN) : v \in {<<JsList>>, Word("x")}}

\* The statuses the contract allows for the finished request a: 401 for a
\* missing or non-tma header, 403 for init data the platform did not issue,
\* 400 for a chat_id that is no number or a user field that does not decode,
\* 403 for a caller without an id or who is not an administrator (403 or 500
\* when the lookup itself failed), 500 when the row could not be fetched, 404
\* when there is no row, and 200 or 500 afterwards.
StatusAllowed(a) ==
    IF a.header \notin {TmaHeader(d) : d \in InitDatas} THEN {401}
    ELSE IF a.header \notin {TmaHeader(d) : d \in GenuineInitDatas} THEN {403}
    ELSE IF a.param \notin {JStr("100"), JStr("200")} THEN {400}
    ELSE IF a.header \in {TmaHeader(d) : d \in UndecodableUserInitDatas} THEN {400}
    ELSE IF a.lookup = "Unset" THEN {403}
    ELSE IF a.lookup \in TransportErrors THEN {403, 500}
    ELSE IF a.lookup \notin {"administrator", "creator"} THEN {403}
    ELSE IF a.row = "Unset" THEN {500}
    ELSE IF a.row = None THEN {404}
    ELSE {200, 500}

\* C11: every finished panel read carries the status the contract gives its
\* failure: 401, 403, 404, 400 for malformed input, 500 for a store or
\* transport failure.
C11_StatusOfEachFailure ==
    api.pc = "done" => api.response.status \in StatusAllowed(api)

(***************************************************************************)
(* is_valid_init_data as a function (SpecVerify): payloads are drawn, the  *)
(* function is applied to each.                                            *)
(***************************************************************************)
\* The characters of field values: a letter, and those the encoding treats
Alphabet == {Ch("a"), Ch("&"), Ch("="), Ch("%"), Ch("+"), Ch(" ")}

MaxValueLen == 2

\* The strings over Alphabet of at most n characters
RECURSIVE Strings(_)
Strings(n) ==
    IF n = 0 THEN {<<>>}
    ELSE LET shorter == Strings(n - 1)
         IN  shorter \cup {Append(x, c) : x \in {y \in shorter : Len(y) = n - 1},
                                          c \in Alphabet}

FieldValues == Strings(MaxValueLen)

\* The payload of the fields with their hash put after the first place fields
HashAt(fields, place) ==
    QueryString(SubSeq(fields, 1, place)
                \o <<<<Word("hash"), FieldsHash(fields, BOT_TOKEN)>>>>
                \o SubSeq(fields, place + 1, Len(fields)))

\* Payloads whose hash is the HMAC over their other fields: a user field of
\* every value, the hash first, in the middle or last
SignedPayloads == {HashAt(UserFields(v), place) : v \in FieldValues, place \in 0..2}

\* A signed payload with one character replaced by another
FlipBase == SignedInitData(UserFields(Word("a")), BOT_TOKEN)

FlippedPayloads ==
    {[FlipBase EXCEPT ![i] = c] :
        i \in 1..Len(FlipBase), c \in (Alphabet \cup {Ch("z")})} \ {FlipBase}

\* Payloads without a hash, the empty payload, and malformed encodings
UnsignedPayloads ==
    {QueryString(UserFields(v)) : v \in {Word("a"), <<Ch("&")>>}}
    \cup {<<>>, <<Ch("%")>>, <<Ch("%"), Ch("z"), Ch("z")>>, <<Ch("&"), Ch("&")>>,
          <<Ch("=")>>, Word("hash"), <<Ch("hash"), Ch("="), Ch("%"), Ch("2")>>}

Probes ==
    {[kind |-> "signed", init_data |-> d, result |-> "Unset"] : d \in SignedPayloads}
    \cup {[kind |-> "flipped", init_data |-> d, result |-> "Unset"] : d \in FlippedPayloads}
    \cup {[kind |-> "unsigned", init_data |-> d, result |-> "Unset"] : d \in UnsignedPayloads}

InitVerify ==
    /\ managed_chats = [c \in Chats |-> None]
    /\ banned_users = {}
    /\ chat_recent_members = [c \in Chats |-> NoEntry]
    /\ mod = ModIdle
    /\ api = ApiIdle
    /\ ev = [s \in EvSlots |-> EvIdle]
    /\ seen = [c \in Chats |-> [order |-> <<>>, again |-> FALSE]]
    /\ delivered = NoDeliveries
    /\ probe \in Probes
    /\ member_status = NoStatuses

\* is_valid_init_data(init_data, BOT_TOKEN) is called; it returns a bool (the
\* except clause of line 83 leaves nothing to raise).
Verify ==
    /\ probe.result = "Unset"
    /\ probe' = [probe EXCEPT !.result =
                    IF is_valid_init_data(probe.init_data, BOT_TOKEN) THEN "True"
                    ELSE "False"]
    /\ UNCHANGED <<managed_chats, banned_users, chat_recent_members, mod, api, ev, seen,
                   delivered, member_status>>

NextVerify == Verify

SpecVerify == InitVerify /\ [][NextVerify]_vars

\* C12: is_valid_init_data returns true for every payload whose hash is the
\* HMAC over its other fields sorted by key, whatever the place of the hash
\* and the characters of the values, and false for a payload with one
\* character changed, without a hash, empty or with a malformed encoding.
C12_VerifiesExactlySigned ==
    probe.result # "Unset" =>
        probe.result = IF probe.kind = "signed" THEN "True" ELSE "False"

(***************************************************************************)
(* Failures of moderation requests (SpecModeration).                       *)
(***************************************************************************)
\* C13: a request that went on to report a platform failure to the actor has
\* left the Ban Ledger as it was when the request arrived.
C13_FailureLeavesLedger ==
    "answer_fail" \in mod.issued => banned_users = mod.ledger

\* C14: when the fetch of the target's name failed in an authorized request
\* for ban, kick, mute or warn, the handler has gone on to the action: it has
\* issued the action's platform call.
C14_NameLookupNotFatal ==
    (/\ mod.auth = "True"
     /\ mod.action \in {JStr(a) : a \in Actions}
     /\ "get_chat" \in mod.issued \ mod.ok
     /\ mod.pc # "get_chat")
    => mod.issued \cap Effects # {}

\* C15: when a kick whose platform ban succeeded has finished with a reply to
\* the actor, the platform unban has succeeded too, so the target is not left
\* banned, and the Ban Ledger is as it was when the request arrived.
C15_KickLeavesNoBan ==
    (/\ mod.action = JStr("kick")
     /\ "ban_chat_member" \in mod.ok
     /\ mod.pc = "done")
    => /\ "unban_chat_member" \in mod.ok
       /\ banned_users = mod.ledger

\* C16: the Ban Ledger changes only by the write of a request whose platform
\* ban call for the pair returned success, and gains that pair's record; the
\* write is issued only after that success; a request issues its ban call
\* once, right after the name fetch, and after a ban call that failed it
\* issues no write.
C16_WriteOnlyAfterBan ==
    [][/\ banned_users' # banned_users =>
             /\ mod.pc = "db_ban_user"
             /\ "ban_chat_member" \in mod.ok
             /\ banned_users' =
                  banned_users \cup {BanRow(mod.chat_id, mod.user_id[2], mod.admin_id)}
       /\ "db_ban_user" \in mod'.issued => "ban_chat_member" \in mod'.ok
       /\ (mod' # mod /\ mod'.pc = "ban_chat_member") => mod.pc = "get_chat"
       /\ ("ban_chat_member" \in mod'.issued \ mod'.ok /\ mod'.pc # "ban_chat_member")
             => "db_ban_user" \notin mod'.issued]_vars

\* A ban wrote its record after its ban call succeeded.
C16_Witness ==
    /\ mod.action = JStr("ban")
    /\ "db_ban_user" \in mod.ok
    /\ banned_users # mod.ledger

\* A payload with a missing or empty action, user_id or chat_id, a chat_id
\* that is no number, or an action that is none of the four
Malformed(payload) ==
    /\ payload.kind = "dict"
    /\ \/ payload.action \in {JNone, JStr("")}
       \/ payload.user_id \in {JNone, JStr(""), JInt(0)}
       \/ payload.chat_id \in {JNone, JStr("")}
       \/ payload.chat_id \notin {JStr("100"), JStr("200"), JInt(100)}
       \/ payload.action \notin {JStr(a) : a \in Actions}

ErrorAnswers == {"answer_rights", "answer_fail", "answer_internal"}

\* C17: a request with a malformed payload has issued no ban, unban, restrict
\* or chat message and no ledger write, the Ban Ledger is as it was when the
\* request arrived, the handler never sends the success reply, and when the
\* request has finished it has sent the actor an error message, which is all
\* the actor received if its delivery succeeded.
C17_MalformedHasNoEffect ==
    (mod.pc # "idle" /\ Malformed(mod.payload)) =>
        /\ mod.issued \cap Effects = {}
        /\ banned_users = mod.ledger
        /\ "answer_ok" \notin mod.issued
        /\ mod.pc \in {"done", "crashed"} => mod.issued \cap ErrorAnswers # {}
        /\ mod.pc = "done" =>
              /\ mod.replies # <<>>
              /\ \A i \in 1..Len(mod.replies) : mod.replies[i] \in ErrorAnswers

\* A request for an unknown action by an administrator, whose name fetch
\* succeeded, ended with the internal-error reply.
C17_Witness ==
    /\ mod.pc = "done"
    /\ mod.payload.kind = "dict"
    /\ mod.payload.action = JStr("promote")
    /\ "get_chat" \in mod.ok
    /\ mod.replies = <<"answer_internal">>

(***************************************************************************)
(* Deliveries of my_chat_member updates about chat 100 (SpecEvents): up to *)
(* MaxDeliveries updates, their handlers running together, from each       *)
(* registry and cache the chat can have.                                   *)
(***************************************************************************)
MaxDeliveries == 2

InitEvents ==
    /\ managed_chats \in {[c \in Chats |-> IF c = 100 THEN t ELSE None] :
                             t \in {None} \cup Titles}
    /\ banned_users = {}
    /\ chat_recent_members \in {[c \in Chats |-> IF c = 100 THEN e ELSE NoEntry] :
                                   e \in {NoEntry, <<UserInfo(TgUser(7))>>}}
    /\ mod = ModIdle
    /\ api = ApiIdle
    /\ ev = [s \in EvSlots |-> EvIdle]
    /\ seen = [c \in Chats |-> [order |-> <<>>, again |-> FALSE]]
    /\ delivered = [NoDeliveries EXCEPT !.managed0 = managed_chats,
                                        !.cache0 = chat_recent_members]
    /\ probe = NoProbe
    /\ member_status = NoStatuses

\* An update is delivered and its handler runs up to its first await
Deliver ==
    \E s \in EvSlots, t \in Titles, st \in ChatMemberStatus :
        /\ Len(delivered.log) < MaxDeliveries
        /\ EvStart(s, 100, t, st)
        /\ delivered' = [delivered EXCEPT !.log =
                            Append(@, [chat_id |-> 100, chat_title |-> t,
                                       new_status |-> st])]
        /\ UNCHANGED <<seen, probe, member_status>>

\* A store call of a handler returns or raises
StoreReturns ==
    \E s \in EvSlots, r \in {Ok, StoreError} :
        /\ EvAddChat(s, r) \/ EvRemoveChat(s, r)
        /\ delivered' = [delivered EXCEPT !.store_failed = @ \/ r # Ok]
        /\ UNCHANGED <<seen, probe, member_status>>

\* A transport call of a handler returns or raises
TransportReturns ==
    \E s \in EvSlots, r \in CallResults :
        /\ EvTransport(s, r)
        /\ UNCHANGED <<seen, delivered, probe, member_status>>

NextEvents == Deliver \/ StoreReturns \/ TransportReturns

SpecEvents == InitEvents /\ [][NextEvents]_vars

\* Every handler has ended and no store call raised
EventsSettled ==
    /\ \A s \in EvSlots : ~EvSuspended(s)
    /\ ~delivered.store_failed

\* C18: once an update has been processed, once or several times and by
\* nothing else, the registry and the cache are what one processing makes of
\* them: for administrator the chat's entry with the update's title, for
\* member, left or kicked no entry of the chat in either, for another status
\* what they were.
C18_RedeliveryChangesNothing ==
    LET log == delivered.log
        e == log[1]
    IN  (/\ log # <<>>
         /\ \A i \in 1..Len(log) : log[i] = e
         /\ EventsSettled)
        => IF e.new_status = "administrator"
           THEN /\ managed_chats = [delivered.managed0 EXCEPT ![e.chat_id] = e.chat_title]
                /\ chat_recent_members = delivered.cache0
           ELSE IF e.new_status \in {"member", "left", "kicked"}
           THEN /\ managed_chats = [delivered.managed0 EXCEPT ![e.chat_id] = None]
                /\ chat_recent_members = [delivered.cache0 EXCEPT ![e.chat_id] = NoEntry]
           ELSE /\ managed_chats = delivered.managed0
                /\ chat_recent_members = delivered.cache0

\* A promotion was processed twice for a chat registered under another title.
C18_Witness ==
    /\ Len(delivered.log) = 2
    /\ delivered.log[1] = delivered.log[2]
    /\ delivered.log[1].new_status = "administrator"
    /\ delivered.managed0[100] \notin {None, delivered.log[1].chat_title}
    /\ EventsSettled

\* C19: once the handlers of a promotion and of a demotion or removal
\* delivered after it have ended, the chat is not in the registry.
C19_DemotionWins ==
    LET log == delivered.log
        n == Len(log)
    IN  (/\ n >= 2
         /\ log[n - 1].new_status = "administrator"
         /\ log[n].new_status \in {"member", "left", "kicked"}
         /\ EventsSettled)
        => managed_chats[log[n].chat_id] = None

\* C20: a step of the panel read leaves the Recency Cache as it was: the same
\* members in the same order with the same stored fields.
C20_PanelReadLeavesCache ==
    [][api'.pc # api.pc => chat_recent_members' = chat_recent_members]_vars

(***************************************************************************)
(* Moderation requests about chat 100 while the actors' statuses in it     *)
(* change at the transport's side (SpecRanks): bot.get_chat_member reports *)
(* the status the actor has when it is asked, or raises.                   *)
(***************************************************************************)
RankStatuses == {"creator", "administrator", "member"}

RankedPayloads == {Payload(JStr(a), JInt(55), JInt(100)) : a \in Actions}

InitRanks ==
    /\ managed_chats = [c \in Chats |-> None]
    /\ banned_users = {}
    /\ chat_recent_members = [c \in Chats |-> NoEntry]
    /\ mod = ModIdle
    /\ api = ApiIdle
    /\ ev = [s \in EvSlots |-> EvIdle]
    /\ seen = [c \in Chats |-> [order |-> <<>>, again |-> FALSE]]
    /\ delivered = NoDeliveries
    /\ probe = NoProbe
    /\ member_status \in [Actors -> RankStatuses]

\* A web_app_data message of an actor arrives
RequestArrives ==
    /\ \E a \in Actors, p \in RankedPayloads : ModStart(a, p)
    /\ UNCHANGED <<seen, delivered, probe, member_status>>

\* bot.get_chat_member answers with the actor's status of that moment, or raises
LookupReturns ==
    /\ mod.pc = "get_chat_member"
    /\ \E o \in {member_status[mod.admin_id]} \cup TransportErrors : ModAuthorize(o)
    /\ UNCHANGED <<seen, delivered, probe, member_status>>

\* Another awaited call of the handler returns or raises
CallReturns ==
    /\ \/ \E r \in CallResults : ModTransport(r)
       \/ \E r \in {Ok, StoreError} : ModBanUser(r)
    /\ UNCHANGED <<seen, delivered, probe, member_status>>

\* An actor is promoted or demoted in chat 100
RankChanges ==
    /\ \E a \in Actors, st \in RankStatuses :
          /\ st # member_status[a]
          /\ member_status' = [member_status EXCEPT ![a] = st]
    /\ UNCHANGED <<managed_chats, banned_users, chat_recent_members, mod, api, ev, seen,
                   delivered, probe>>

NextRanks == RequestArrives \/ LookupReturns \/ CallReturns \/ RankChanges

SpecRanks == InitRanks /\ [][NextRanks]_vars

\* The calls that ban, unban or restrict a member
RankedCalls == {"ban_chat_member", "unban_chat_member", "restrict_chat_member"}

\* C21: in the step in which the handler issues a ban, unban or restrict
\* call, the actor of the request is administrator or creator of the chat.
C21_ActorIsAdminAtCall ==
    [][(mod'.pc \in RankedCalls /\ mod'.pc # mod.pc)
          => member_status'[mod'.admin_id] \in {"administrator", "creator"}]_vars

\* C22: a moderation request that has ended has ended by returning, no
\* exception of a call having left the handler, and the actor has received
\* one outcome message, a success confirmation or an error message.
C22_EndsWithOneAnswer ==
    mod.pc \in {"done", "crashed"} =>
        /\ mod.pc = "done"
        /\ Len(mod.replies) = 1
        /\ mod.replies[1] \in Answers
====
